---- MODULE Spec2Model ----
(***************************************************************************)
(* Model of the add-book workflows of the PPP e-book library manager.      *)
(*                                                                         *)
(*   NewPyTerminalPPP/actions/add_book_logic.py   process_add_book         *)
(*   NewPyTerminalPPP/normalize.py                normalize_author_for_path*)
(*   NewPyTerminalPPP/screens/add.py              AddScreen                *)
(*   PyTerminalPPP/widgets/add_new_book.py        AddNewBook               *)
(*   PyTerminalPPP/app.py                         BookManagerApp           *)
(*                                                                         *)
(* A Python str is a sequence of one-character strings, so that strip,     *)
(* upper, replace, split and f-string concatenation are computed and not   *)
(* assumed.  A filesystem path is a sequence of components (pathlib parts).*)
(* The filesystem is `files` (regular files, path -> content) and `dirs`   *)
(* (existing directories); the TinyDB store is `db`, the sequence of its   *)
(* documents in insertion order.                                           *)
(***************************************************************************)
EXTENDS Integers, Sequences, FiniteSets, TLC

VARIABLES
    app,          \* which application of the repository is running
    files,        \* regular files on disk: path -> content
    dirs,         \* directories on disk
    db,           \* documents of the TinyDB store, in insertion order
    clock,        \* wall clock, in whole ticks
    next_uuid,    \* number of uuid4() values drawn so far
    pc,           \* position of the running handler ("idle" between events)
    call,         \* arguments and locals of the running handler
    steps,        \* workflow states entered by the current (or last) run
    ops,          \* filesystem / store calls attempted by that run
    last,         \* call and result of the last completed process_add_book
    notify,       \* last notification shown by a Textual handler
    current_uuid, \* BookManagerApp._current_uuid: key of the highlighted row
    after_refresh,\* callbacks queued with call_after_refresh, oldest first
    cache,        \* BookManager._cache / TagsManager._cache
    dirty,        \* BookManager._dirty / TagsManager._dirty
    next_id,      \* the tags table's next document id (tinydb Table._next_id)
    ret,          \* the last BookManager / TagsManager call and what it raised
    removed,      \* ids of the records removed from the store so far
    arg,          \* the input a session is run with: the string handed to
                  \* normalize_author_for_path, the title an add-book form
                  \* gets, the document handed to Book.from_dict
    out,          \* the results of the function run on arg, oldest first
    sort_field,   \* MainScreen.sort_field
    sort_reverse, \* MainScreen.sort_reverse
    rows,         \* the books last handed to DataTableBook.update_table
    cache_books   \* BookManagerApp._cache_books

\* the state of BookManagerApp's book list and its delete dialog
tableVars == <<current_uuid, after_refresh>>
\* the state of a BookManager / TagsManager and of its caller
managerVars == <<cache, dirty, next_id, ret, removed>>
\* the state of a call of the Name Normalizer
pureVars == <<arg, out>>
\* the state of MainScreen's book table
screenVars == <<sort_field, sort_reverse, rows>>

vars == <<app, files, dirs, db, clock, next_uuid, pc, call, steps, ops,
          last, notify, cache_books, tableVars, managerVars, pureVars, screenVars>>

----------------------------------------------------------------------------
(* Bounds of the model *)

MaxRecords == 2
MaxTime == 1
\* longest author name drawn from NameAlphabet
MaxLen == 3

----------------------------------------------------------------------------
(* Python str operations on sequences of characters *)

\* str.upper() on the characters the model uses
UpperChar(c) ==
    CASE c = "a" -> "A" [] c = "b" -> "B" [] c = "d" -> "D" [] c = "f" -> "F"
      [] c = "p" -> "P" [] c = "t" -> "T" [] c = "v" -> "V" [] c = "x" -> "X"
      [] c = "e" -> "E" [] c = "i" -> "I" [] c = "k" -> "K" [] c = "l" -> "L"
      [] c = "n" -> "N" [] c = "o" -> "O" [] c = "u" -> "U"
      [] OTHER -> c

\* str.lower() on the characters the model uses
LowerChar(c) ==
    CASE c = "A" -> "a" [] c = "B" -> "b" [] c = "D" -> "d" [] c = "F" -> "f"
      [] c = "P" -> "p" [] c = "T" -> "t" [] c = "V" -> "v" [] c = "X" -> "x"
      [] c = "J" -> "j" [] c = "R" -> "r" [] c = "U" -> "u"
      [] OTHER -> c

Upper(s) == [i \in 1..Len(s) |-> UpperChar(s[i])]
Lower(s) == [i \in 1..Len(s) |-> LowerChar(s[i])]

RECURSIVE LStrip(_)
LStrip(s) == IF s # <<>> /\ s[1] = " " THEN LStrip(Tail(s)) ELSE s

RECURSIVE RStrip(_)
RStrip(s) ==
    IF s # <<>> /\ s[Len(s)] = " " THEN RStrip(SubSeq(s, 1, Len(s) - 1)) ELSE s

\* str.strip()
Strip(s) == RStrip(LStrip(s))

\* str.replace(ch, "")
RemoveChar(s, ch) == SelectSeq(s, LAMBDA c : c # ch)

\* str.split(sep) for a one-character separator: never empty, keeps empty parts
RECURSIVE SplitAcc(_, _, _)
SplitAcc(s, sep, cur) ==
    IF s = <<>> THEN <<cur>>
    ELSE IF s[1] = sep THEN <<cur>> \o SplitAcc(Tail(s), sep, <<>>)
    ELSE SplitAcc(Tail(s), sep, Append(cur, s[1]))

Split(s, sep) == SplitAcc(s, sep, <<>>)

\* position of the last occurrence of ch in s, 0 when absent (str.rfind + 1)
RECURSIVE RFind(_, _)
RFind(s, ch) ==
    IF s = <<>> THEN 0
    ELSE IF s[Len(s)] = ch THEN Len(s)
    ELSE RFind(SubSeq(s, 1, Len(s) - 1), ch)

\* ord() of the characters the model uses
Ord(c) ==
    CASE c = " " -> 32 [] c = "," -> 44 [] c = "-" -> 45 [] c = "." -> 46
      [] c = "/" -> 47 [] c = "A" -> 65 [] c = "B" -> 66 [] c = "D" -> 68
      [] c = "F" -> 70 [] c = "P" -> 80 [] c = "T" -> 84 [] c = "V" -> 86
      [] c = "X" -> 88 [] c = "a" -> 97 [] c = "b" -> 98 [] c = "d" -> 100
      [] c = "f" -> 102 [] c = "p" -> 112 [] c = "t" -> 116 [] c = "v" -> 118
      [] c = "x" -> 120 [] OTHER -> 0

\* s < t for two str values
RECURSIVE StrLess(_, _)
StrLess(s, t) ==
    IF t = <<>> THEN FALSE
    ELSE IF s = <<>> THEN TRUE
    ELSE IF Ord(s[1]) # Ord(t[1]) THEN Ord(s[1]) < Ord(t[1])
    ELSE StrLess(Tail(s), Tail(t))

\* app.py line 225: key=added with reverse=True puts the later record first
AddedAfter(x, y) == x.added[1] > y.added[1]

\* the order sorted() compares two elements by: plain str values, or the
\* records' "added" key in reverse
Before(x, y, by_added) == IF by_added THEN AddedAfter(x, y) ELSE StrLess(x, y)

\* sorted(xs) / sorted(xs, key=added, reverse=True): a stable insertion
\* sort, equal keys keep their order in both directions
SortedBy(xs, by_added) ==
    LET RECURSIVE Insert(_, _)
        Insert(sorted, x) ==
            IF sorted = <<>> THEN <<x>>
            ELSE IF Before(x, sorted[1], by_added) THEN <<x>> \o sorted
            ELSE <<sorted[1]>> \o Insert(Tail(sorted), x)
        RECURSIVE Sort(_)
        Sort(ys) ==
            IF ys = <<>> THEN <<>>
            ELSE Insert(Sort(SubSeq(ys, 1, Len(ys) - 1)), ys[Len(ys)])
    IN  Sort(xs)

----------------------------------------------------------------------------
(* normalize.py *)

AAVV_MARKER == <<"A", "A", ".", "V", "V", ".">>
AAVV_TOKEN == <<"A", "A", "V", "V">>

normalize_author_for_path_Untrimmed(author_name) ==
    IF author_name = <<>> THEN <<>>
    ELSE IF Upper(author_name) = AAVV_MARKER THEN AAVV_TOKEN
    ELSE RemoveChar(author_name, ".")

normalize_author_for_path(author_name) ==
    IF author_name = <<>> THEN <<>>
    ELSE LET cleaned_name == Strip(author_name)
         IN  IF Upper(cleaned_name) = AAVV_MARKER THEN AAVV_TOKEN
             ELSE RemoveChar(cleaned_name, ".")

----------------------------------------------------------------------------
(* pathlib *)

\* the parts a string contributes to a path: split on "/", the empty and "."
\* parts dropped
PathParts(s) ==
    SelectSeq(Split(s, "/"), LAMBDA part : part # <<>> /\ part # <<".">>)

\* the root directory "/"
FsRoot == << <<"/">> >>

\* Path / str: an absolute right-hand side replaces the left-hand side
PathJoin(base, s) ==
    IF s # <<>> /\ s[1] = "/" THEN FsRoot \o PathParts(s)
    ELSE base \o PathParts(s)

\* Path.parent
Parent(p) == SubSeq(p, 1, Len(p) - 1)

\* Path.name
Name(p) == p[Len(p)]

\* Path.suffix: the last dot of the name and what follows it, unless the dot
\* starts or ends the name
Suffix(p) ==
    LET n == Name(p)
        i == RFind(n, ".")
    IN  IF i > 1 /\ i < Len(n) THEN SubSeq(n, i, Len(n)) ELSE <<>>

\* every directory on the way from the root down to p (mkdir parents=True)
Ancestors(p) == {SubSeq(p, 1, k) : k \in 1..Len(p)}

----------------------------------------------------------------------------
(* The world the handlers run in *)

\* library_base_path / ConfigReader.LIBRARY, and the directory the user
\* picks source files from
LibraryRoot == FsRoot \o << <<"l", "i", "b">> >>
UploadDir == FsRoot \o << <<"u", "p">> >>

\* the files of the upload directory at start: name -> content
SourceNames ==
    { <<"a", ".", "P", "D", "F">>,
      <<"b", ".", "P", "D", "F">>,
      <<"x", ".", "t", "x", "t">> }

SourcePath(n) == Append(UploadDir, n)

ContentOf(n) == <<"content of", n[1]>>

\* what a copy leaves at its destination when it fails half way
PartialOf(c) == <<"partial", c[2]>>

\* what the user can type in the author, title and tags inputs
Authors == { <<>>, <<" ">>, <<"A", ".">> }
\* (a title may hold a path separator: no input is refused for it)
Titles == { <<>>, <<"T">>, <<"/">> }
\* a session of an add-book form is run with one title; the user types it
\* or leaves the input empty
TitlesTyped(session_title) == { <<>>, session_title }
TagInputs == { <<" ", "t", ",", " ", ",", "t">> }

\* the author names normalize_author_for_path is called with: every string
\* of up to MaxLen characters of NameAlphabet, and the names of the examples
NameAlphabet == {" ", ".", "A", "a"}

RECURSIVE StringsUpTo(_)
StringsUpTo(n) ==
    IF n = 0 THEN { <<>> }
    ELSE LET shorter == StringsUpTo(n - 1)
         IN  shorter \cup {Append(x, c) : x \in shorter, c \in NameAlphabet}

NameExamples ==
    { <<"A", "A", ".", "V", "V", ".">>,
      <<" ", "a", "a", ".", "V", "v", ".", " ">>,
      <<"A", "A", "V", "V">>,
      <<"A", "A", ".", "V", "V">>,
      <<"J", ".", "R", ".", "R", ".", " ", "T", "o", "l", "k", "i", "e", "n">> }

NameInputs == StringsUpTo(MaxLen) \cup NameExamples

\* the tzinfo of a naive datetime; an aware one has <<sign, hours>>
Naive == <<>>

\* datetime.now(): the clock counts half seconds
Instant(k) ==
    [minute |-> k \div 120, second |-> (k \div 2) % 60,
     microsecond |-> (k % 2) * 500000, tz |-> Naive]

\* datetime.isoformat(): the parts the string spells out after the date and
\* the hour: minute, second, the fraction (printed only when the microsecond
\* is not zero) and the UTC offset (printed only for an aware datetime)
isoformat(dt) ==
    [minute |-> dt.minute, second |-> dt.second,
     fraction |-> IF dt.microsecond = 0 THEN <<>> ELSE <<dt.microsecond>>,
     offset |-> dt.tz]

\* datetime.isoformat(timespec='seconds'): the fraction is never printed
isoformat_seconds(dt) ==
    [minute |-> dt.minute, second |-> dt.second, fraction |-> <<>>, offset |-> dt.tz]

\* ch in added_str, for the characters Book.from_dict looks for; the date is
\* written %Y-%m-%d, so every such string holds a "-"
HasChar(added_str, ch) ==
    CASE ch = "." -> added_str.fraction # <<>>
      [] ch = "+" -> added_str.offset # <<>> /\ added_str.offset[1] = "+"
      [] ch = "-" -> TRUE
      [] OTHER -> FALSE

\* the "added" strings the writers of the store produce: isoformat() of a
\* naive now() (process_add_book), isoformat(timespec='seconds') of a naive
\* or an aware datetime (Book.to_dict, update_book), written in a zone east
\* or west of UTC
AddedWritten ==
    { isoformat(Instant(k)) : k \in 0..MaxTime }
    \cup { isoformat_seconds([Instant(k) EXCEPT !.tz = z]) :
              k \in 0..MaxTime, z \in { <<"+", 1>>, <<"-", 5>>, Naive } }

\* the documents MainScreen's table is filled from: book.to_dict() for a
\* Book with or without a title, added in one of two different minutes
SortDocs ==
    { [uuid |-> u, author |-> <<"A", ".">>, title |-> t,
       added |-> isoformat_seconds([minute |-> m, second |-> 0,
                                    microsecond |-> 0, tz |-> <<"+", 1>>]),
       tags |-> <<>>, filename |-> <<>>] :
          u \in {1, 2}, t \in { <<>>, <<"T">> }, m \in 0..1 }

\* the stores MainScreen is opened on: what add_book calls can have
\* inserted, one document more than a BookManager session of the model adds
SortStores ==
    UNION { [1..n -> SortDocs] : n \in 0..(MaxRecords + 1) }

\* the documents Book.from_dict is run on
StoredBooks ==
    { [uuid |-> 1, author |-> <<"A", ".">>, title |-> <<"T">>, added |-> a,
       tags |-> <<>>, filename |-> <<>>] : a \in AddedWritten }

\* FormattedDateTime.now(): strftime("%Y-%m-%d %H:%M") keeps the minutes
strftime_minutes(dt) == <<dt.minute>>

\* the three front ends of the repository, each run with its own store and
\* library: NewPyTerminalPPP/main.py (AddBookScreen, process_add_book),
\* NewPyTerminalPPP/screens/main.py (MainScreen, AddScreen, EditScreen and
\* their BookManager) and PyTerminalPPP/app.py (BookManagerApp); the
\* TagsManager of models.py and the Name Normalizer of normalize.py, which
\* no front end drives, are run through their own interface, and so are
\* Book.from_dict, on the documents a store can hold, and the book table of
\* MainScreen (DataTableBook), over a store that is already filled
Apps == {"AddBookScreen", "MainScreen", "BookManagerApp", "TagsManager",
         "normalize_author_for_path", "Book.from_dict", "DataTableBook"}

\* self._cache = None / a dict, as its items in insertion order
NoCache == [loaded |-> FALSE, items |-> <<>>]
\* no BookManager / TagsManager call has returned yet
NoReturn == [op |-> "none", exc |-> "none"]

NoCall == [op |-> "none", source_path |-> <<>>, author |-> <<>>, title |-> <<>>,
           tags |-> <<>>, e |-> [exc |-> "none", at |-> "none"], before |-> 0]
NoRun == [call |-> NoCall, result |-> [success |-> FALSE, message |-> <<>>,
                                       new_file_path |-> <<>>]]

Init ==
    /\ app \in Apps
    /\ files = [p \in {SourcePath(n) : n \in SourceNames} |-> ContentOf(Name(p))]
    /\ dirs = {FsRoot, LibraryRoot, UploadDir}
    /\ db \in IF app = "DataTableBook" THEN SortStores ELSE { <<>> }
    /\ clock = 0
    /\ next_uuid = 0
    /\ pc = IF app = "DataTableBook" THEN "compose" ELSE "idle"
    /\ call = NoCall
    /\ steps = <<>>
    /\ ops = <<>>
    /\ last = NoRun
    /\ notify = <<>>
    /\ cache_books = <<>>
    /\ current_uuid = 0
    /\ after_refresh = <<>>
    /\ cache = NoCache
    /\ dirty = TRUE
    /\ next_id = 1
    /\ ret = NoReturn
    /\ removed = {}
    /\ arg \in CASE app = "normalize_author_for_path" -> NameInputs
                [] app \in {"AddBookScreen", "BookManagerApp"} -> Titles \ { <<>> }
                [] app = "Book.from_dict" -> StoredBooks
                [] OTHER -> { <<>> }
    /\ out = <<>>
    /\ sort_field = "added"
    /\ sort_reverse = FALSE
    /\ rows = <<>>

\* time passes between two events of a front end that stamps its records
Tick ==
    /\ app \in {"AddBookScreen", "BookManagerApp", "Book.from_dict"}
    /\ pc = "idle"
    /\ clock < MaxTime
    /\ clock' = clock + 1
    /\ UNCHANGED <<app, screenVars, tableVars, managerVars, pureVars, files, dirs, db, next_uuid, pc, call, steps, ops,
                   last, notify, cache_books>>

----------------------------------------------------------------------------
(* shutil and os, as the handlers use them *)

Exists_Unchecked(p) == FALSE

\* Path.exists()
Exists(p) == p \in DOMAIN files \/ p \in dirs

\* Path.mkdir(parents=True, exist_ok=True) raises when a regular file is in
\* the way
MkdirBlocked(d) == \E a \in Ancestors(d) : a \in DOMAIN files

MkdirDirs(d) == dirs \cup Ancestors(d)

\* the file map after src has been renamed to dst
Moved(f, src, dst) ==
    [p \in (DOMAIN f \ {src}) \cup {dst} |-> IF p = dst THEN f[src] ELSE f[p]]

\* the file map with a (whole or partial) copy of src at dst
Copied(f, dst, c) ==
    [p \in DOMAIN f \cup {dst} |-> IF p = dst THEN c ELSE f[p]]

\* shutil.copy2 raising OSError: nothing was written, or the destination was
\* created and the copy stopped half way (copyfile does not remove it)
CopyFailures(f, src, dst) ==
    IF src \notin DOMAIN f THEN {f}
    ELSE {f, Copied(f, dst, PartialOf(f[src]))}

\* shutil.move raising: os.rename failed and nothing changed, or (rename
\* across devices falls back to copy2 + os.unlink) the copy stopped half way,
\* or the copy is complete and the unlink of the source failed
MoveFailures(f, src, dst) ==
    IF src \notin DOMAIN f THEN {f}
    ELSE {f, Copied(f, dst, PartialOf(f[src])), Copied(f, dst, f[src])}

----------------------------------------------------------------------------
(* actions/add_book_logic.py: process_add_book *)

ALLOWED_EXTENSIONS ==
    { <<".", "p", "d", "f">>, <<".", "e", "p", "u", "b">>,
      <<".", "d", "o", "c", "x">>, <<".", "p", "p", "t", "x">> }

\* an f-string: its literal segments and the values between them
FString(segments, values) == [text |-> segments, args |-> values]

\* a value interpolated into a message
PathArg(p) == [path |-> p]
StrArg(s) == [str |-> s]
Raised(class, at) == [exc |-> class, at |-> at]

NoError == Raised("none", "none")

\* the dictionary process_add_book returns; None is the empty sequence
Failure(msg) == [success |-> FALSE, message |-> msg, new_file_path |-> <<>>]
Success(msg, path) == [success |-> TRUE, message |-> msg, new_file_path |-> path]

MsgRequired == FString(<<"Error: File path, Author, and Title are required.">>, <<>>)
MsgNotFound(src) == FString(<<"Error: Source file not found at '", "'">>, <<PathArg(src)>>)
MsgInvalidType == FString(<<"Error: Invalid file type. Allowed: ">>, <<>>)
MsgTargetExists_AsNotFound(t) == MsgNotFound(t)

MsgTargetExists(t) == FString(<<"Error: Target file already exists: '", "'">>, <<PathArg(t)>>)
MsgPreparing(e) == FString(<<"Error preparing paths: ">>, <<e>>)
MsgMoving(e) == FString(<<"Error moving file: ">>, <<e>>)
MsgUnexpectedMove(e) == FString(<<"Unexpected error during file move: ">>, <<e>>)
MsgReverted(e) == FString(<<"Error adding to database: ", ". File move reverted.">>, <<e>>)
MsgCritical_AsReverted(e, move_back_e) == MsgReverted(e)

MsgCritical(e, move_back_e) ==
    FString(<<"CRITICAL Error adding to DB: ", ". FAILED TO REVERT FILE MOVE: ">>,
            <<e, move_back_e>>)
MsgSuccess(author, title, t) ==
    FString(<<"Book added successfully!\nAuthor: ", "\nTitle: ", "\nFile saved to: ">>,
            <<StrArg(author), StrArg(title), PathArg(t)>>)

\* one filesystem / store call of a run and how it ended
Op(name, outcome) == <<name, outcome>>

\* the number of documents of the store for one book
RecordsFor(store, author, filename) ==
    Cardinality({i \in 1..Len(store) :
                    store[i].author = author /\ store[i].filename = filename})

\* the locals of a running handler; `before` remembers how many documents the
\* store held for the book when the handler started
Call(op, src, author, title, tags, ext) ==
    [op |-> op, source_path |-> src, author |-> author, title |-> title,
     tags |-> tags, e |-> NoError,
     before |-> RecordsFor(db, author, title \o <<" ", "-", " ">> \o author \o ext)]

\* locals computed at lines 44-47
NewFilename(c) == c.title \o <<" ", "-", " ">> \o c.author \o Suffix(c.source_path)
TargetAuthorDir(c) == PathJoin(LibraryRoot, normalize_author_for_path(c.author))
TargetPath(c) == PathJoin(TargetAuthorDir(c), NewFilename(c))

\* line 74: [tag.strip() for tag in tags_str.split(',') if tag.strip()]
TagsList(tags_str) ==
    LET parts == Split(tags_str, ",")
        stripped == [i \in 1..Len(parts) |-> Strip(parts[i])]
    IN  SelectSeq(stripped, LAMBDA tag : tag # <<>>)

\* lines 76-82
NewEntry(c, now) ==
    [author |-> c.author, title |-> c.title, filename |-> NewFilename(c),
     tags |-> TagsList(c.tags), added |-> isoformat(now)]

\* process_add_book returns r
Return(c, r) ==
    /\ pc' = "idle"
    /\ call' = NoCall
    /\ last' = [call |-> c, result |-> r]

\* line 36: not source_path.is_file()
SourceMissing(src) == src \notin DOMAIN files

InvalidType_Unchecked(src) == FALSE

\* line 39: source_path.suffix.lower() not in ALLOWED_EXTENSIONS
InvalidType(src) == Lower(Suffix(src)) \notin ALLOWED_EXTENSIONS

\* lines 31-40: entry and input validation
Validating(src, author, title, tags_str) ==
    LET c == Call("process_add_book", src, author, title, tags_str, Suffix(src))
    IN  /\ app = "AddBookScreen"
        /\ pc = "idle"
        /\ Len(db) < MaxRecords
        /\ steps' = <<"Validating">>
        /\ ops' = <<>>
        /\ IF src = <<>> \/ author = <<>> \/ title = <<>>
             THEN Return(c, Failure(MsgRequired))
           ELSE IF SourceMissing(src)
             THEN Return(c, Failure(MsgNotFound(src)))
           ELSE IF InvalidType(src)
             THEN Return(c, Failure(MsgInvalidType))
           ELSE /\ pc' = "Placing File"
                /\ call' = c
                /\ UNCHANGED last
        /\ UNCHANGED <<app, screenVars, tableVars, managerVars, pureVars, files, dirs, db, clock, next_uuid, notify, cache_books>>

TargetExistsHandler_FallsThrough(c) ==
    /\ pc' = "Committing Record"
    /\ UNCHANGED <<call, last>>

\* lines 50-51: the collision check found the target
TargetExistsHandler(c) == Return(c, Failure(MsgTargetExists(TargetPath(c))))

MoveErrorHandler_RollsBack(c, e) ==
    /\ pc' = "RollingBack"
    /\ call' = [c EXCEPT !.e = e]
    /\ UNCHANGED last

\* lines 62-64: except OSError around mkdir and move
MoveErrorHandler(c, e) == Return(c, Failure(MsgMoving(e)))

PreparingErrorHandler_Reraises(c, e) == Return(c, [raised |-> e])

\* lines 53-55: except Exception around the path preparation and the
\* collision check
PreparingErrorHandler(c, e) == Return(c, Failure(MsgPreparing(e)))

\* Path.mkdir(parents=True, exist_ok=True) can raise when it has a directory
\* to create or when a regular file is in the way
MkdirCanRaise(d) == d \notin dirs \/ MkdirBlocked(d)

\* lines 42-67: path preparation, collision check, mkdir and move
PlacingFile ==
    LET target_author_dir == TargetAuthorDir(call)
        target_path == TargetPath(call)
        source_path == call.source_path
    IN  /\ pc = "Placing File"
        /\ call.op = "process_add_book"
        /\ steps' = Append(steps, "Placing File")
        /\ \/ \* line 50: target_path.exists() raises, caught at line 53
              /\ ops' = Append(ops, Op("exists", "raised"))
              /\ PreparingErrorHandler(call, Raised("OSError", "exists"))
              /\ UNCHANGED <<files, dirs>>
           \/ \* line 50: the target is already there
              /\ Exists(target_path)
              /\ ops' = Append(ops, Op("exists", "ok"))
              /\ TargetExistsHandler(call)
              /\ UNCHANGED <<files, dirs>>
           \/ \* line 60 raises
              /\ ~Exists(target_path)
              /\ MkdirCanRaise(target_author_dir)
              /\ ops' = ops \o <<Op("exists", "ok"), Op("mkdir", "raised")>>
              /\ \/ MoveErrorHandler(call, Raised("OSError", "mkdir"))
                 \/ /\ ~MkdirBlocked(target_author_dir)
                    /\ Return(call, Failure(MsgUnexpectedMove(Raised("Exception", "mkdir"))))
              /\ UNCHANGED <<files, dirs>>
           \/ \* line 61 raises
              /\ ~Exists(target_path)
              /\ ~MkdirBlocked(target_author_dir)
              /\ ops' = ops \o <<Op("exists", "ok"), Op("mkdir", "ok"), Op("move", "raised")>>
              /\ dirs' = MkdirDirs(target_author_dir)
              /\ files' \in MoveFailures(files, source_path, target_path)
              /\ Parent(target_path) \notin dirs' => files' = files
              /\ \/ MoveErrorHandler(call, Raised("OSError", "move"))
                 \/ \* lines 65-67: an exception that is not an OSError
                    Return(call, Failure(MsgUnexpectedMove(Raised("Exception", "move"))))
           \/ \* the file is moved
              /\ ~Exists(target_path)
              /\ ~MkdirBlocked(target_author_dir)
              /\ ops' = ops \o <<Op("exists", "ok"), Op("mkdir", "ok"), Op("move", "ok")>>
              /\ dirs' = MkdirDirs(target_author_dir)
              /\ Parent(target_path) \in dirs'
              /\ files' = Moved(files, source_path, target_path)
              /\ pc' = "Committing Record"
              /\ UNCHANGED <<call, last>>
        /\ UNCHANGED <<app, screenVars, tableVars, managerVars, pureVars, db, clock, next_uuid, notify, cache_books>>

\* lines 70-87: open the store, insert the entry, close the store
CommittingRecord ==
    /\ pc = "Committing Record"
    /\ call.op = "process_add_book"
    /\ \/ \* TinyDB(db_path) raises
          /\ ops' = Append(ops, Op("open", "raised"))
          /\ call' = [call EXCEPT !.e = Raised("Exception", "open")]
          /\ pc' = "RollingBack"
          /\ steps' = Append(steps, "Committing Record")
          /\ UNCHANGED <<db, last>>
       \/ \* db.insert raises before anything is written
          /\ ops' = ops \o <<Op("open", "ok"), Op("insert", "raised")>>
          /\ call' = [call EXCEPT !.e = Raised("Exception", "insert")]
          /\ pc' = "RollingBack"
          /\ steps' = Append(steps, "Committing Record")
          /\ UNCHANGED <<db, last>>
       \/ \* db.close raises: the insert has already written the document
          /\ ops' = ops \o <<Op("open", "ok"), Op("insert", "ok"), Op("close", "raised")>>
          /\ db' = Append(db, NewEntry(call, Instant(clock)))
          /\ call' = [call EXCEPT !.e = Raised("Exception", "close")]
          /\ pc' = "RollingBack"
          /\ steps' = Append(steps, "Committing Record")
          /\ UNCHANGED last
       \/ \* lines 96-98
          /\ ops' = ops \o <<Op("open", "ok"), Op("insert", "ok"), Op("close", "ok")>>
          /\ db' = Append(db, NewEntry(call, Instant(clock)))
          /\ steps' = steps \o <<"Committing Record", "Done">>
          /\ Return(call, Success(MsgSuccess(call.author, call.title, TargetPath(call)),
                                  TargetPath(call)))
    /\ UNCHANGED <<app, screenVars, tableVars, managerVars, pureVars, files, dirs, clock, next_uuid, notify, cache_books>>

\* lines 88-94: move the file back
RollingBack ==
    LET target_path == TargetPath(call)
        source_path == call.source_path
    IN  /\ pc = "RollingBack"
        /\ call.op = "process_add_book"
        /\ steps' = Append(steps, "RollingBack")
        /\ \/ /\ target_path \in DOMAIN files
              /\ ops' = Append(ops, Op("move_back", "ok"))
              /\ files' = Moved(files, target_path, source_path)
              /\ Return(call, Failure(MsgReverted(call.e)))
           \/ /\ ops' = Append(ops, Op("move_back", "raised"))
              /\ files' \in MoveFailures(files, target_path, source_path)
              /\ Return(call, Failure(MsgCritical(call.e, Raised("Exception", "move_back"))))
        /\ UNCHANGED <<app, screenVars, tableVars, managerVars, pureVars, dirs, db, clock, next_uuid, notify, cache_books>>

process_add_book ==
    \/ \E src \in {SourcePath(n) : n \in SourceNames},
          author \in Authors, title \in TitlesTyped(arg), tags_str \in TagInputs :
          Validating(src, author, title, tags_str)
    \/ PlacingFile
    \/ CommittingRecord
    \/ RollingBack

----------------------------------------------------------------------------
(* PyTerminalPPP: AddNewBook.handle_save_button and the SaveFileRequest
   handler of BookManagerApp *)

\* self.notify(message, severity=...)
Notify(severity, msg) == [severity |-> severity, message |-> msg]

\* pathvalidate.validate_filename(name, platform="universal") raises on an
\* empty name, on a path separator, and on a name that ends with a space or a
\* dot
ValidFilename(name) ==
    /\ name # <<>>
    /\ \A i \in 1..Len(name) : name[i] # "/"
    /\ name[Len(name)] \notin {" ", "."}

\* app.py line 435: f"{title} - {author}{ext}"
new_file_name(c) == c.title \o <<" ", "-", " ">> \o c.author \o Suffix(c.source_path)

\* app.py lines 428, 436: Path(f"{ConfigReader.LIBRARY}/{author}[/{new_file_name}]")
author_path(c) == LibraryRoot \o PathParts(c.author)
new_file_path(c) == author_path(c) \o PathParts(new_file_name(c))

\* app.py line 437: sorted([t.strip() for t in tags if t.strip()])
tags_list(tags) ==
    LET stripped == [i \in 1..Len(tags) |-> Strip(tags[i])]
    IN  SortedBy(SelectSeq(stripped, LAMBDA t : t # <<>>), FALSE)

\* what exiftool -overwrite_original leaves in the file it stamps
Tagged(c) == <<"tagged", c[2]>>

\* app.py lines 477-486: the notification of a tagging failure
TaggingNotice(e) ==
    CASE e.exc = "FileNotFoundError" ->
           Notify("error", FString(<<"Exiftool not found at: ", ". Metadata not written.">>,
                                   <<StrArg(<<"exiftool_path">>)>>))
      [] e.exc = "CalledProcessError" ->
           Notify("error", FString(<<"Error writing metadata with exiftool: ", "...">>, <<e>>))
      [] OTHER ->
           Notify("warning", FString(<<"Unexpected error writing metadata: ">>, <<e>>))

\* app.py lines 489-501
book_data(c, uuid, now) ==
    [uuid |-> uuid, author |-> c.author, title |-> c.title,
     added |-> strftime_minutes(now), tags |-> tags_list(c.tags),
     filename |-> new_file_name(c), other_formats |-> <<>>, series |-> <<>>,
     num_series |-> <<>>, desc |-> <<>>, read |-> <<>>]

\* app.py line 225: sorted(self._db.all(), key=added, reverse=True)
SortedByAddedDesc(books) == SortedBy(books, TRUE)

\* widgets/filtered_directory_tree.py: the files the tree offers for selection
TREE_ALLOWED_EXTENSIONS ==
    { <<".", "p", "d", "f">>, <<".", "d", "o", "c", "x">>, <<".", "e", "p", "u", "b">> }

filter_paths_Unfiltered(p) == p \in DOMAIN files

filter_paths(p) == p \in DOMAIN files /\ Lower(Suffix(p)) \in TREE_ALLOWED_EXTENSIONS

\* app.py lines 217-234, _update_table([]): the cache is read again from the
\* store only when it is empty; a failing self._db.all() empties it and is
\* notified.  The table then shows the cache.
update_table(books, store) ==
    IF books = <<>>
      THEN { [books |-> SortedByAddedDesc(store), failed |-> FALSE],
             [books |-> <<>>, failed |-> TRUE] }
      ELSE { [books |-> books, failed |-> FALSE] }

\* app.py line 229
ErrorReadingDatabase ==
    Notify("error", FString(<<"Error reading database: ">>, <<Raised("Exception", "all")>>))

\* app.py line 226: the books of the cache under a uuid
uuid_to_book(uuid) ==
    {cache_books[i] : i \in {j \in 1..Len(cache_books) : cache_books[j].uuid = uuid}}

\* the handler returns; `call` keeps the locals of the last request
Handled == pc' = "idle"

\* add_new_book.py lines 155-180 and app.py lines 420-443
SaveFileRequest(src, author_input, title_input, tags_input) ==
    LET c == Call("SaveFileRequest", src, Strip(author_input), Strip(title_input),
                  Split(tags_input, ","), Suffix(src))
    IN  /\ app = "BookManagerApp"
        /\ pc = "idle"
        /\ Len(db) < MaxRecords
        /\ filter_paths(src)
        /\ steps' = <<"Validating">>
        /\ ops' = <<>>
        /\ call' = c
        /\ IF c.author = <<>>
             THEN Handled /\ notify' = Notify("error", FString(<<"Author is required!">>, <<>>))
           ELSE IF c.title = <<>>
             THEN Handled /\ notify' = Notify("error", FString(<<"Title is required!">>, <<>>))
           ELSE IF ~ValidFilename(new_file_name(c))
             THEN Handled /\ notify' = Notify("error",
                       FString(<<"Invalid characters in ", " for filename/directory: ">>,
                               <<PathArg(new_file_path(c)), Raised("ValidationError", "validate_filename")>>))
           ELSE /\ pc' = "Placing File"
                /\ UNCHANGED notify
        /\ UNCHANGED <<app, screenVars, tableVars, managerVars, pureVars, files, dirs, db, clock, next_uuid, last, cache_books>>

\* app.py lines 513-516: except OSError
FilesystemErrorHandler(e) ==
    /\ Handled
    /\ notify' = Notify("error", FString(<<"File system error: ">>, <<e>>))

\* app.py lines 445-455: mkdir, collision check, copy
SavePlacingFile ==
    /\ pc = "Placing File"
    /\ call.op = "SaveFileRequest"
    /\ steps' = Append(steps, "Placing File")
    /\ \/ \* line 447 raises
          /\ MkdirCanRaise(author_path(call))
          /\ ops' = Append(ops, Op("mkdir", "raised"))
          /\ FilesystemErrorHandler(Raised("OSError", "mkdir"))
          /\ UNCHANGED <<files, dirs>>
       \/ \* line 450: new_file_path.exists() raises
          /\ ~MkdirBlocked(author_path(call))
          /\ ops' = ops \o <<Op("mkdir", "ok"), Op("exists", "raised")>>
          /\ dirs' = MkdirDirs(author_path(call))
          /\ FilesystemErrorHandler(Raised("OSError", "exists"))
          /\ UNCHANGED files
       \/ \* lines 450-452: the target is already there
          /\ ~MkdirBlocked(author_path(call))
          /\ ops' = ops \o <<Op("mkdir", "ok"), Op("exists", "ok")>>
          /\ dirs' = MkdirDirs(author_path(call))
          /\ new_file_path(call) \in DOMAIN files \/ new_file_path(call) \in dirs'
          /\ Handled
          /\ notify' = Notify("error", FString(<<"File '", "' already exists in '", "' directory.">>,
                                               <<StrArg(new_file_name(call)), StrArg(call.author)>>))
          /\ UNCHANGED files
       \/ \* line 454 raises
          /\ ~MkdirBlocked(author_path(call))
          /\ ops' = ops \o <<Op("mkdir", "ok"), Op("exists", "ok"), Op("copy", "raised")>>
          /\ dirs' = MkdirDirs(author_path(call))
          /\ ~(new_file_path(call) \in DOMAIN files \/ new_file_path(call) \in dirs')
          /\ files' \in CopyFailures(files, call.source_path, new_file_path(call))
          /\ FilesystemErrorHandler(Raised("OSError", "copy"))
       \/ \* the file is copied
          /\ ~MkdirBlocked(author_path(call))
          /\ ops' = ops \o <<Op("mkdir", "ok"), Op("exists", "ok"), Op("copy", "ok")>>
          /\ dirs' = MkdirDirs(author_path(call))
          /\ ~(new_file_path(call) \in DOMAIN files \/ new_file_path(call) \in dirs')
          /\ files' = Copied(files, new_file_path(call), files[call.source_path])
          /\ pc' = "Tagging"
          /\ UNCHANGED notify
    /\ UNCHANGED <<app, screenVars, tableVars, managerVars, pureVars, db, clock, next_uuid, call, last, cache_books>>

TaggingErrorHandler_Aborts(e) ==
    /\ Handled
    /\ call' = [call EXCEPT !.e = e]
    /\ notify' = TaggingNotice(e)

\* app.py lines 477-486: the three except clauses around the exiftool call
\* notify and fall through to the insert
TaggingErrorHandler(e) ==
    /\ pc' = "Committing Record"
    /\ call' = [call EXCEPT !.e = e]
    /\ notify' = TaggingNotice(e)

\* app.py lines 457-486: exiftool stamps the copy
SaveTagging ==
    /\ pc = "Tagging"
    /\ call.op = "SaveFileRequest"
    /\ steps' = Append(steps, "Tagging")
    /\ \/ /\ ops' = Append(ops, Op("exiftool", "ok"))
          /\ files' = [files EXCEPT ![new_file_path(call)] = Tagged(@)]
          /\ pc' = "Committing Record"
          /\ UNCHANGED <<call, notify>>
       \/ \* the tool is missing, exits non-zero, or fails otherwise
          /\ ops' = Append(ops, Op("exiftool", "raised"))
          /\ \E e \in {Raised("FileNotFoundError", "exiftool"),
                       Raised("CalledProcessError", "exiftool"),
                       Raised("Exception", "exiftool")} :
                TaggingErrorHandler(e)
          /\ UNCHANGED files
    /\ UNCHANGED <<app, screenVars, tableVars, managerVars, pureVars, dirs, db, clock, next_uuid, last, cache_books>>

\* app.py lines 488-520: insert the record, clear the cache, refresh the table
SaveCommittingRecord ==
    /\ pc = "Committing Record"
    /\ call.op = "SaveFileRequest"
    /\ next_uuid' = next_uuid + 1
    /\ Handled
    /\ \/ \* line 504 raises: caught at line 517
          /\ ops' = Append(ops, Op("insert", "raised"))
          /\ steps' = Append(steps, "Committing Record")
          /\ notify' = Notify("error", FString(<<"Unexpected error saving book: ">>,
                                               <<Raised("Exception", "insert")>>))
          /\ UNCHANGED <<db, cache_books>>
       \/ \* lines 504-510
          /\ ops' = Append(ops, Op("insert", "ok"))
          /\ steps' = steps \o <<"Committing Record", "Done">>
          /\ db' = Append(db, book_data(call, next_uuid + 1, Instant(clock)))
          /\ \E shown \in update_table(<<>>, db') :
                /\ cache_books' = shown.books
                /\ notify' = IF shown.failed THEN ErrorReadingDatabase
                             ELSE Notify("information",
                                         FString(<<"Book added successfully!">>, <<>>))
    /\ UNCHANGED <<app, screenVars, tableVars, managerVars, pureVars, files, dirs, clock, call, last>>

handle_open_file_request ==
    \/ \E src \in {SourcePath(n) : n \in SourceNames},
          author \in Authors, title \in TitlesTyped(arg), tags \in TagInputs :
          SaveFileRequest(src, author, title, tags)
    \/ SavePlacingFile
    \/ SaveTagging
    \/ SaveCommittingRecord

----------------------------------------------------------------------------
(* PyTerminalPPP/app.py and screens/modal_yes_no.py: the book list, the
   Delete and Refresh buttons, the confirmation dialog *)

\* app.py lines 404-418: the cursor moves to a row of the table; the row
\* shown for an empty list has no key
on_data_table_row_highlighted ==
    /\ app = "BookManagerApp"
    /\ pc = "idle"
    /\ \E key \in IF cache_books = <<>> THEN {0}
                  ELSE {cache_books[i].uuid : i \in 1..Len(cache_books)} :
          /\ key # current_uuid
          /\ current_uuid' = key
    /\ UNCHANGED <<app, screenVars, managerVars, pureVars, after_refresh, files, dirs, db,
                   clock, next_uuid, pc, call, steps, ops, last, notify, cache_books>>

\* app.py lines 336-356
handle_delete ==
    /\ app = "BookManagerApp"
    /\ pc = "idle"
    /\ after_refresh = <<>>
    /\ IF current_uuid = 0
         THEN /\ notify' = Notify("warning", FString(<<"Select a book to delete first.">>, <<>>))
              /\ UNCHANGED <<pc, after_refresh>>
       ELSE IF uuid_to_book(current_uuid) = {}
         THEN /\ notify' = Notify("error", FString(<<"Cannot find data for the selected book.">>, <<>>))
              /\ UNCHANGED <<pc, after_refresh>>
       ELSE \* lines 352, 356: the dialog opens, the table update is queued
            /\ pc' = "YesOrNo"
            /\ after_refresh' = Append(after_refresh, "_update_table")
            /\ UNCHANGED notify
    /\ UNCHANGED <<app, screenVars, managerVars, pureVars, current_uuid, files, dirs, db,
                   clock, next_uuid, call, steps, ops, last, cache_books>>

\* app.py line 356: the queued lambda runs self._update_table([])
call_after_refresh ==
    /\ app = "BookManagerApp"
    /\ pc \in {"idle", "YesOrNo"}
    /\ after_refresh # <<>>
    /\ after_refresh' = Tail(after_refresh)
    /\ \E shown \in update_table(cache_books, db) :
          /\ cache_books' = shown.books
          /\ notify' = IF shown.failed THEN ErrorReadingDatabase ELSE notify
    /\ UNCHANGED <<app, screenVars, managerVars, pureVars, current_uuid, files, dirs, db,
                   clock, next_uuid, pc, call, steps, ops, last>>

\* app.py lines 359-362
handle_refresh ==
    /\ app = "BookManagerApp"
    /\ pc = "idle"
    /\ \E shown \in update_table(cache_books, db) :
          /\ cache_books' = shown.books
          /\ notify' = IF shown.failed THEN ErrorReadingDatabase
                       ELSE Notify("information", FString(<<"Refreshing data...">>, <<>>))
    /\ UNCHANGED <<app, screenVars, tableVars, managerVars, pureVars, files, dirs, db,
                   clock, next_uuid, pc, call, steps, ops, last>>

\* self._db.contains(Book.uuid == uuid)
Contains(store, uuid) == \E i \in 1..Len(store) : store[i].uuid = uuid

\* self._db.remove(Book.uuid == uuid): every document with the uuid goes
Remove(store, uuid) == SelectSeq(store, LAMBDA book : book.uuid # uuid)

RemoveConfirmed_Unlinks ==
    /\ db' = Remove(db, current_uuid)
    /\ removed' = removed \cup {current_uuid}
    /\ notify' = Notify("information", FString(<<"Rimosso ", " libro/i con UUID ">>,
                           <<[count |-> Len(db) - Len(db')], [uuid |-> current_uuid]>>))
    /\ files' = [p \in {q \in DOMAIN files :
                          \A i \in 1..Len(db) :
                              db[i].uuid = current_uuid =>
                                 q # LibraryRoot \o PathParts(db[i].author)
                                                \o PathParts(db[i].filename)}
                  |-> files[p]]

\* modal_yes_no.py lines 35-36: the record is removed, its file is not touched
RemoveConfirmed ==
    /\ db' = Remove(db, current_uuid)
    /\ removed' = removed \cup {current_uuid}
    /\ notify' = Notify("information", FString(<<"Rimosso ", " libro/i con UUID ">>,
                           <<[count |-> Len(db) - Len(db')], [uuid |-> current_uuid]>>))
    /\ UNCHANGED files

\* modal_yes_no.py lines 24-42; the dialog was built with the uuid that was
\* current when Delete was pressed, and nothing changes it while it is open
YesOrNo(button) ==
    /\ app = "BookManagerApp"
    /\ pc = "YesOrNo"
    /\ \/ /\ button = "cancel"
          /\ pc' = "idle"
          /\ UNCHANGED <<db, removed, notify, files>>
       \/ \* lines 32-33
          /\ button = "yes"
          /\ ~Contains(db, current_uuid)
          /\ notify' = Notify("error", FString(<<"Il libro ", " non e' stato trovato nel db">>,
                                               <<[uuid |-> current_uuid]>>))
          /\ pc' = "idle"
          /\ UNCHANGED <<db, removed, files>>
       \/ /\ button = "yes"
          /\ Contains(db, current_uuid)
          /\ RemoveConfirmed
          /\ pc' = "idle"
       \/ \* lines 41-42: a store call raises; the handler returns a string,
          \* the dialog stays open and the store is as it was
          /\ button = "yes"
          /\ UNCHANGED <<pc, db, removed, notify, files>>
    /\ UNCHANGED <<app, screenVars, tableVars, pureVars, cache, dirty, next_id, ret, dirs,
                   clock, next_uuid, call, steps, ops, last, cache_books>>

BookList ==
    \/ on_data_table_row_highlighted
    \/ handle_delete
    \/ call_after_refresh
    \/ handle_refresh
    \/ \E button \in {"cancel", "yes"} : YesOrNo(button)

----------------------------------------------------------------------------
(* NewPyTerminalPPP/screens/add.py: AddScreen.on_button_pressed *)

\* Every path ends in a notification: form.validate() rejects a blank title
\* or author, a missing file selection is reported, and otherwise line 92
\* calls self.bookmanager.ensure_directory, which models.BookManager does not
\* define (it defines ensure_author_directory), so the AttributeError is
\* caught at line 122 before anything is copied, tagged or inserted.
AddScreenSave(selected, author, title) ==
    /\ app = "MainScreen"
    /\ pc = "idle"
    /\ notify' =
         IF Strip(title) = <<>>
           THEN Notify("error", FString(<<"Il titolo e' obbligatorio">>, <<>>))
         ELSE IF Strip(author) = <<>>
           THEN Notify("error", FString(<<"L'autore e' obbligatorio">>, <<>>))
         ELSE IF selected \notin DOMAIN files
           THEN Notify("error", FString(<<"Seleziona un file!">>, <<>>))
         ELSE Notify("error", FString(<<"">>, <<Raised("AttributeError", "ensure_directory")>>))
    /\ UNCHANGED <<app, screenVars, tableVars, managerVars, pureVars, files, dirs, db, clock, next_uuid, pc, call, steps, ops,
                   last, cache_books>>

on_button_pressed ==
    \E selected \in {SourcePath(n) : n \in SourceNames},
       author \in Authors, title \in Titles :
       AddScreenSave(selected, author, title)

----------------------------------------------------------------------------
(* NewPyTerminalPPP/models.py: Book and BookManager, called by MainScreen,
   AddScreen and EditScreen, over the documents of the books table *)

\* what the callers pass: the uuid of a Book, its title, the text searched
BookUuids == {1, 2}
BookTitles == { <<"T">> }
SearchTexts == { <<>>, <<"u">> }
\* the local time zone datetime.now().astimezone() reports
LocalZone == <<"+", 1>>

\* the new_data of an update: a new title (EditScreen), another uuid, an
\* "added" string without a UTC offset
NewData == { [title |-> <<"U">>], [uuid |-> 2], [added |-> isoformat(Instant(0))] }

\* FormValidators.validate_author_name, of the module formvalidators that
\* is not in the repository: an author is a non-empty display string
validate_author_name(author) == Strip(author) # <<>>

\* Book.to_dict: isoformat(timespec='seconds') drops the fraction and prints
\* the UTC offset of an aware datetime
to_dict(book) ==
    [uuid |-> book.uuid, author |-> book.author, title |-> book.title,
     added |-> isoformat_seconds(book.added),
     tags |-> book.tags, filename |-> book.filename]

\* Book.from_dict, lines 26-46, on the "added" string
\*   line 29: the fraction is cut only from a string without "Z", "+", "-"
\*   line 35: datetime.fromisoformat for a string with "+"
\*   lines 39-42: strptime with seconds (the format without seconds cannot
\*     match a string that has them), then the local zone is attached
\*   line 45: a ValueError gives the current local time
parsed_added(data_added, now) ==
    LET added_str ==
            IF /\ HasChar(data_added, ".") /\ ~HasChar(data_added, "Z")
               /\ ~HasChar(data_added, "+") /\ ~HasChar(data_added, "-")
              THEN [data_added EXCEPT !.fraction = <<>>]
              ELSE data_added
    IN  IF HasChar(added_str, "+") \/ HasChar(added_str, "Z")
          THEN [minute |-> added_str.minute, second |-> added_str.second,
                microsecond |-> IF added_str.fraction = <<>> THEN 0
                                ELSE added_str.fraction[1],
                tz |-> added_str.offset]
        ELSE IF added_str.fraction = <<>> /\ added_str.offset = <<>>
          THEN [minute |-> added_str.minute, second |-> added_str.second,
                microsecond |-> 0, tz |-> LocalZone]
        ELSE [now EXCEPT !.tz = LocalZone]

\* Book.from_dict
from_dict(data, now) ==
    [uuid |-> data.uuid, author |-> data.author, title |-> data.title,
     added |-> parsed_added(data.added, now),
     tags |-> data.tags, filename |-> data.filename]

\* Book(uuid=..., added=datetime.now(), ...) as AddScreen builds it
Book(uuid, author, title, now) ==
    [uuid |-> uuid, author |-> author, title |-> title, added |-> now,
     tags |-> <<>>, filename |-> <<>>]

\* d[key] = value on a dict kept as its items in insertion order
DictPut(items, key, value) ==
    IF \E i \in 1..Len(items) : items[i].key = key
      THEN [i \in 1..Len(items) |->
               IF items[i].key = key THEN [key |-> key, value |-> value] ELSE items[i]]
      ELSE Append(items, [key |-> key, value |-> value])

\* d.get(key), as the list of the values found
DictGet(items, key) ==
    LET at == SelectSeq(items, LAMBDA item : item.key = key)
    IN  [i \in 1..Len(at) |-> at[i].value]

\* list(d.values())
DictValues(items) == [i \in 1..Len(items) |-> items[i].value]

\* lines 156-157: {book['uuid']: Book.from_dict(book) for book in all()}
RECURSIVE BooksByUuid(_, _)
BooksByUuid(store, now) ==
    IF store = <<>> THEN <<>>
    ELSE LET last_book == store[Len(store)]
         IN  DictPut(BooksByUuid(SubSeq(store, 1, Len(store) - 1), now),
                     last_book.uuid, from_dict(last_book, now))

\* lines 153-158: the items of the cache after _ensure_cache
EnsuredCache(now) ==
    IF dirty \/ ~cache.loaded
      THEN [loaded |-> TRUE, items |-> BooksByUuid(db, now)]
      ELSE cache

\* needle in haystack, for two str values
IsInfix(needle, haystack) ==
    \E i \in 0..(Len(haystack) - Len(needle)) :
        SubSeq(haystack, i + 1, i + Len(needle)) = needle

\* a document with the fields of new_data written over its own
Merged(doc, new_data) ==
    [f \in DOMAIN doc \cup DOMAIN new_data |->
        IF f \in DOMAIN new_data THEN new_data[f] ELSE doc[f]]

\* the call returns / raises exc to its caller
Returns(op) == ret' = [op |-> op, exc |-> "none"]
Raises(op, exc) == ret' = [op |-> op, exc |-> exc]

BookManagerRuns == app = "MainScreen" /\ pc = "idle"

\* lines 160-168
add_book(book) ==
    /\ BookManagerRuns
    /\ Len(db) < MaxRecords
    /\ IF ~validate_author_name(book.author)
         THEN /\ Raises("add_book", "ValueError")
              /\ UNCHANGED <<db, dirty>>
         ELSE /\ db' = Append(db, to_dict(book))
              /\ dirty' = TRUE
              /\ Returns("add_book")
    /\ UNCHANGED <<app, screenVars, tableVars, pureVars, cache, next_id, removed, files, dirs,
                   clock, next_uuid, pc, call, steps, ops, last, notify, cache_books>>

\* lines 184-192: strptime with "%Y-%m-%dT%H:%M:%S%z" raises on an "added"
\* string without an offset or with a fraction; every document with the
\* uuid takes the fields of new_data
update_book(uuid, new_data) ==
    /\ BookManagerRuns
    /\ IF /\ "added" \in DOMAIN new_data
          /\ new_data.added.offset = <<>> \/ new_data.added.fraction # <<>>
         THEN /\ Raises("update_book", "ValueError")
              /\ UNCHANGED <<db, dirty>>
         ELSE /\ db' = [i \in 1..Len(db) |->
                          IF db[i].uuid = uuid THEN Merged(db[i], new_data) ELSE db[i]]
              /\ dirty' = TRUE
              /\ Returns("update_book")
    /\ UNCHANGED <<app, screenVars, tableVars, pureVars, cache, next_id, removed, files, dirs,
                   clock, next_uuid, pc, call, steps, ops, last, notify, cache_books>>

\* lines 194-198: every document with the uuid is removed; nothing is
\* raised or returned when there is none
remove_book(uuid) ==
    /\ BookManagerRuns
    /\ db' = Remove(db, uuid)
    /\ removed' = IF Contains(db, uuid) THEN removed \cup {uuid} ELSE removed
    /\ dirty' = TRUE
    /\ Returns("remove_book")
    /\ UNCHANGED <<app, screenVars, tableVars, pureVars, cache, next_id, files, dirs,
                   clock, next_uuid, pc, call, steps, ops, last, notify, cache_books>>

\* what a read takes from the cache: lines 203, 208, 213-222
ReadValue(op, key, items) ==
    CASE op = "get_book" -> DictGet(items, key[1])
      [] op = "get_all_books" -> DictValues(items)
      [] op = "search_books_by_text" ->
           IF key[1] = <<>> THEN DictValues(items)
           ELSE SelectSeq(DictValues(items),
                          LAMBDA book :
                              \/ book.title # <<>> /\ IsInfix(Lower(key[1]), Lower(book.title))
                              \/ book.author # <<>> /\ IsInfix(Lower(key[1]), Lower(book.author)))

\* a read: _ensure_cache, then the caller gets
\* ReadValue(op, key, cache'.items)
ReadBooks(op, key) ==
    /\ BookManagerRuns
    /\ cache' = EnsuredCache(Instant(clock))
    /\ dirty' = FALSE
    /\ Returns(op)
    /\ UNCHANGED <<app, screenVars, tableVars, pureVars, db, next_id, removed, files, dirs,
                   clock, next_uuid, pc, call, steps, ops, last, notify, cache_books>>

\* lines 200-203
get_book(uuid) == ReadBooks("get_book", <<uuid>>)
\* lines 205-208
get_all_books == ReadBooks("get_all_books", <<>>)
\* lines 210-222
search_books_by_text(text) == ReadBooks("search_books_by_text", <<text>>)

BookManager ==
    \/ \E uuid \in BookUuids, author \in Authors, title \in BookTitles :
          add_book(Book(uuid, author, title, Instant(clock)))
    \/ \E uuid \in BookUuids, new_data \in NewData : update_book(uuid, new_data)
    \/ \E uuid \in BookUuids : remove_book(uuid)
    \/ \E uuid \in BookUuids : get_book(uuid)
    \/ get_all_books
    \/ \E text \in SearchTexts : search_books_by_text(text)

----------------------------------------------------------------------------
(* NewPyTerminalPPP/models.py: TagsManager, over the documents of the tags
   table; tinydb numbers the documents of a table from 1 and raises KeyError
   for a doc_id the table does not hold *)

TagNames == { <<"n">>, <<"m">> }
TagIcons == { <<"i">> }
TagIds == 1..MaxRecords
TagData == { [icon |-> <<"j">>] }

TagsManagerRuns == app = "TagsManager" /\ pc = "idle"

HasDoc(store, doc_id) == \E i \in 1..Len(store) : store[i].doc_id = doc_id

\* line 98: {tag.doc_id: tag for tag in self.tags_table.all()}
RECURSIVE TagsByDocId(_)
TagsByDocId(store) ==
    IF store = <<>> THEN <<>>
    ELSE LET last_tag == store[Len(store)]
         IN  DictPut(TagsByDocId(SubSeq(store, 1, Len(store) - 1)),
                     last_tag.doc_id, last_tag)

\* lines 114-118
add_tag(name, icon) ==
    /\ TagsManagerRuns
    /\ next_id <= MaxRecords
    /\ db' = Append(db, [doc_id |-> next_id, name |-> name, icon |-> icon])
    /\ next_id' = next_id + 1
    /\ dirty' = TRUE
    /\ Returns("add_tag")
    /\ UNCHANGED <<app, screenVars, tableVars, pureVars, cache, removed, files, dirs,
                   clock, next_uuid, pc, call, steps, ops, last, notify, cache_books>>

\* lines 120-123
update_tag(tag_id, new_data) ==
    /\ TagsManagerRuns
    /\ IF ~HasDoc(db, tag_id)
         THEN /\ Raises("update_tag", "KeyError")
              /\ UNCHANGED <<db, dirty>>
         ELSE /\ db' = [i \in 1..Len(db) |->
                          IF db[i].doc_id = tag_id THEN Merged(db[i], new_data) ELSE db[i]]
              /\ dirty' = TRUE
              /\ Returns("update_tag")
    /\ UNCHANGED <<app, screenVars, tableVars, pureVars, cache, next_id, removed, files, dirs,
                   clock, next_uuid, pc, call, steps, ops, last, notify, cache_books>>

\* lines 125-128
remove_tag(tag_id) ==
    /\ TagsManagerRuns
    /\ IF ~HasDoc(db, tag_id)
         THEN /\ Raises("remove_tag", "KeyError")
              /\ UNCHANGED <<db, dirty, removed>>
         ELSE /\ db' = SelectSeq(db, LAMBDA tag : tag.doc_id # tag_id)
              /\ removed' = removed \cup {tag_id}
              /\ dirty' = TRUE
              /\ Returns("remove_tag")
    /\ UNCHANGED <<app, screenVars, tableVars, pureVars, cache, next_id, files, dirs,
                   clock, next_uuid, pc, call, steps, ops, last, notify, cache_books>>

\* what a read takes from the cache: lines 104, 109-112
TagsValue(op, key, items) ==
    CASE op = "get_all_tags" -> items
      [] op = "get_tag_by_name" ->
           LET named == SelectSeq(DictValues(items), LAMBDA tag : tag.name = key[1])
           IN  IF named = <<>> THEN <<>> ELSE <<named[1]>>

\* lines 95-99, then the caller gets TagsValue(op, key, cache'.items)
ReadTags(op, key) ==
    /\ TagsManagerRuns
    /\ cache' = IF dirty \/ ~cache.loaded
                  THEN [loaded |-> TRUE, items |-> TagsByDocId(db)]
                  ELSE cache
    /\ dirty' = FALSE
    /\ Returns(op)
    /\ UNCHANGED <<app, screenVars, tableVars, pureVars, db, next_id, removed, files, dirs,
                   clock, next_uuid, pc, call, steps, ops, last, notify, cache_books>>

\* lines 101-104
get_all_tags == ReadTags("get_all_tags", <<>>)
\* lines 106-112
get_tag_by_name(name) == ReadTags("get_tag_by_name", <<name>>)

TagsManager ==
    \/ \E name \in TagNames, icon \in TagIcons : add_tag(name, icon)
    \/ \E tag_id \in TagIds, new_data \in TagData : update_tag(tag_id, new_data)
    \/ \E tag_id \in TagIds : remove_tag(tag_id)
    \/ get_all_tags
    \/ \E name \in TagNames : get_tag_by_name(name)

----------------------------------------------------------------------------
(* normalize.py called on its own: once on arg, then on its own result *)

Normalize ==
    /\ app = "normalize_author_for_path"
    /\ Len(out) < 2
    /\ out' = Append(out, normalize_author_for_path(
                              IF out = <<>> THEN arg ELSE out[Len(out)]))
    /\ UNCHANGED <<app, screenVars, tableVars, managerVars, arg, files, dirs, db, clock,
                   next_uuid, pc, call, steps, ops, last, notify, cache_books>>

----------------------------------------------------------------------------
(* Book.from_dict called as _ensure_cache calls it (models.py, line 156):
   on the same stored document, at each rebuild of the cache *)

Rebuild ==
    /\ app = "Book.from_dict"
    /\ Len(out) < 2
    /\ out' = Append(out, from_dict(arg, Instant(clock)))
    /\ UNCHANGED <<app, screenVars, tableVars, managerVars, arg, files, dirs, db, clock,
                   next_uuid, pc, call, steps, ops, last, notify, cache_books>>

----------------------------------------------------------------------------
(* NewPyTerminalPPP/screens/main.py: MainScreen's book table, and
   BookManager.sort_books of models.py *)

\* the moment of an aware datetime, which is what two of them compare by
Timestamp(d) ==
    (d.minute - (IF d.tz[1] = "+" THEN 60 * d.tz[2] ELSE 0 - 60 * d.tz[2])) * 120
    + d.second * 2 + d.microsecond \div 500000

\* key(x) < key(y) for the key function sort_books sorts field by; in
\* str(getattr(x, field) or '') None and '' are both the empty string
KeyLess(x, y, field) ==
    IF field = "added" THEN Timestamp(x.added) < Timestamp(y.added)
    ELSE StrLess(IF x[field] = <<>> THEN <<>> ELSE x[field],
                 IF y[field] = <<>> THEN <<>> ELSE y[field])

\* list.sort(key=..., reverse=reverse): elements with equal keys keep their
\* order, also with reverse=True
RECURSIVE Sorted(_, _, _)
Sorted(books, field, reverse) ==
    IF books = <<>> THEN <<>>
    ELSE LET before == Sorted(SubSeq(books, 1, Len(books) - 1), field, reverse)
             x == books[Len(books)]
             k == Cardinality({ i \in 1..Len(before) :
                                  IF reverse THEN ~KeyLess(before[i], x, field)
                                  ELSE ~KeyLess(x, before[i], field) })
         IN  SubSeq(before, 1, k) \o <<x>> \o SubSeq(before, k + 1, Len(before))

\* models.py lines 224-239, on the items of the cache; both callers pass a
\* bool for reverse; hasattr(books[0], field) is the field being one of the
\* record's
sort_books_result(items, field, reverse) ==
    LET books == DictValues(items)
    IN  IF books = <<>> THEN <<>>
        ELSE IF field = "added" THEN Sorted(books, field, reverse)
        ELSE IF field \in DOMAIN books[1] THEN Sorted(books, field, reverse)
        ELSE books

\* lines 60-66 and 90-96, for the columns of the fields the model has
column_mapping == (0 :> "added") @@ (1 :> "author") @@ (2 :> "title")
\* the column indexes a header click or the cursor can give, one of them
\* outside the mapping
Columns == {0, 1, 2, 5}

\* what every handler of the table leaves alone
TableFrame ==
    UNCHANGED <<app, tableVars, pureVars, db, next_id, ret, removed, files, dirs,
                clock, next_uuid, call, steps, ops, last, notify, cache_books>>

\* lines 34-35
on_mount ==
    /\ app = "DataTableBook"
    /\ pc = "compose"
    /\ pc' = "idle"
    /\ cache' = EnsuredCache(Instant(clock))
    /\ dirty' = FALSE
    /\ UNCHANGED <<sort_field, sort_reverse>>
    \* update_table, lines 37-40: the list sort_books returns is dropped,
    \* the table gets get_all_books()
    /\ rows' = DictValues(cache'.items)
    /\ TableFrame

\* lines 88-100
on_data_table_header_selected(column_index) ==
    /\ app = "DataTableBook"
    /\ pc = "idle"
    /\ sort_field' = IF column_index \in DOMAIN column_mapping
                       THEN column_mapping[column_index] ELSE "added"
    /\ sort_reverse' = FALSE
    /\ cache' = EnsuredCache(Instant(clock))
    /\ dirty' = FALSE
    \* update_table, lines 37-40: the list sort_books returns is dropped,
    \* the table gets get_all_books()
    /\ rows' = DictValues(cache'.items)
    /\ UNCHANGED pc
    /\ TableFrame

\* lines 57-80; current_col is table.current_column
action_reverse_sort(current_col) ==
    /\ app = "DataTableBook"
    /\ pc = "idle"
    /\ sort_field' = IF current_col \in DOMAIN column_mapping
                       THEN column_mapping[current_col] ELSE sort_field
    /\ sort_reverse' = ~sort_reverse
    /\ cache' = EnsuredCache(Instant(clock))
    /\ dirty' = FALSE
    /\ rows' = sort_books_result(cache'.items, sort_field', sort_reverse')
    /\ UNCHANGED pc
    /\ TableFrame

MainScreenTable ==
    \/ on_mount
    \/ \E column_index \in Columns : on_data_table_header_selected(column_index)
    \/ \E current_col \in Columns : action_reverse_sort(current_col)

Next ==
    \/ Tick
    \/ Normalize
    \/ Rebuild
    \/ MainScreenTable
    \/ BookList
    \/ BookManager
    \/ TagsManager
    \/ process_add_book
    \/ handle_open_file_request
    \/ on_button_pressed

Spec == Init /\ [][Next]_vars

----------------------------------------------------------------------------
(* Vocabulary of the properties *)

AddBookRuns == app = "AddBookScreen"
SaveRuns == app = "BookManagerApp"

\* the run attempted the call `name`; the call ended with `outcome`
AttemptedIn(log, name) == \E i \in 1..Len(log) : log[i][1] = name
Attempted(name) == AttemptedIn(ops, name)
Did(name, outcome) == \E i \in 1..Len(ops) : ops[i] = Op(name, outcome)
TimesAttempted(name) == Cardinality({i \in 1..Len(ops) : ops[i][1] = name})

\* process_add_book has returned and `last`, `steps`, `ops` describe that run
Returned == AddBookRuns /\ pc = "idle" /\ last.call.op = "process_add_book"

\* the path a handler computes for the placed file
TargetOf(c) == IF c.op = "process_add_book" THEN TargetPath(c) ELSE new_file_path(c)

\* the path the data model gives a record's file:
\* <library_root>/<normalize(author)>/<filename>
ResolvedPath(r) ==
    PathJoin(PathJoin(LibraryRoot, normalize_author_for_path(r.author)), r.filename)

\* the message a result carries opens with this literal text
Opening(r) == r.message.text[1]

----------------------------------------------------------------------------
(* C1 *)

\* C1: when process_add_book returns after a commit failure (store open,
\* insert or close raised) followed by a successful reverse move, the file is
\* back at its source path, no file is at the target path and the store holds
\* no record for the book.
C1_RollbackLeavesNoTrace ==
    (Returned /\ Did("move_back", "ok")) =>
        /\ last.call.source_path \in DOMAIN files
        /\ TargetPath(last.call) \notin DOMAIN files
        /\ RecordsFor(db, last.call.author, NewFilename(last.call)) = 0

----------------------------------------------------------------------------
(* C2 *)

----------------------------------------------------------------------------
(* C3 *)

\* C3: when the computed target path already exists, the placing step of
\* either handler ends the run there as a failure, attempts no move and no
\* copy, and changes neither the files (source and existing target
\* included), nor the directories, nor the store; the failure is the
\* conflict error whenever the existence check itself returns.
C3_ConflictHasNoSideEffects ==
    [][(/\ pc = "Placing File"
        /\ TargetOf(call) \in DOMAIN files \/ TargetOf(call) \in dirs) =>
          /\ pc' = "idle"
          /\ files' = files
          /\ dirs' = dirs
          /\ db' = db
          /\ ~AttemptedIn(ops', "move")
          /\ ~AttemptedIn(ops', "copy")
          /\ AddBookRuns =>
                /\ ~last'.result.success
                /\ ops'[Len(ops')] = Op("exists", "ok") =>
                      last'.result = Failure(MsgTargetExists(TargetPath(call)))
          /\ SaveRuns =>
                /\ notify'.severity = "error"
                /\ ops'[Len(ops')] = Op("exists", "ok") =>
                      notify'.message.text[2] = "' already exists in '"]_vars

\* a run has ended on the collision check with its source file still in place
C3_Witness ==
    /\ Returned
    /\ Opening(last.result) = "Error: Target file already exists: '"
    /\ last.call.source_path \in DOMAIN files
    /\ TargetPath(last.call) \in DOMAIN files

----------------------------------------------------------------------------
(* C4 *)

\* the running or returning call is a second add of the book of the last,
\* successful call, from another source file that exists
SecondAddOf(first, c) ==
    /\ first.call.op = "process_add_book"
    /\ first.result.success
    /\ first.call.before = 0
    /\ c.op = "process_add_book"
    /\ c.author = first.call.author
    /\ c.title = first.call.title
    /\ Suffix(c.source_path) = Suffix(first.call.source_path)
    /\ c.source_path # first.call.source_path
    /\ c.source_path \in DOMAIN files

\* C4: after a successful process_add_book for a book the store had no record
\* of, a second call with the same author, title and extension and another
\* existing source file fails (with the conflict error whenever the existence
\* check returns); no step of it touches the file at the target path, the
\* second source file stays where it is, and the store holds exactly one
\* record for the target.
C4_SecondAddConflicts ==
    [][/\ (AddBookRuns /\ pc = "idle" /\ pc' # "idle" /\ SecondAddOf(last, call')) =>
             /\ files' = files
             /\ db' = db
       /\ (AddBookRuns /\ last' # last /\ SecondAddOf(last, last'.call)) =>
             /\ ~last'.result.success
             /\ ops'[Len(ops')] = Op("exists", "ok") =>
                   last'.result = Failure(MsgTargetExists(TargetPath(last.call)))
             /\ TargetPath(last.call) \in DOMAIN files'
             /\ files'[TargetPath(last.call)] = files[TargetPath(last.call)]
             /\ last'.call.source_path \in DOMAIN files'
             /\ files'[last'.call.source_path] = files[last'.call.source_path]
             /\ RecordsFor(db', last.call.author, NewFilename(last.call)) = 1]_vars

\* the second add of a book has returned the conflict error
C4_Witness ==
    /\ Returned
    /\ Opening(last.result) = "Error: Target file already exists: '"
    /\ RecordsFor(db, last.call.author, NewFilename(last.call)) = 1
    /\ TargetPath(last.call) \in DOMAIN files
    /\ files[TargetPath(last.call)] # files[last.call.source_path]

----------------------------------------------------------------------------
(* C5 *)

\* the errors a message names
NamesErrorAt(r, places) ==
    \E i \in 1..Len(r.message.args) :
        /\ "at" \in DOMAIN r.message.args[i]
        /\ r.message.args[i].at \in places

\* C5: when the store commit fails and the reverse move fails too,
\* process_add_book returns a failure that is not the result of a commit
\* failure with a successful rollback (whatever the store error) and that
\* names both the store error and the rollback error.
C5_DoubleFailureIsDistinct ==
    (Returned /\ Did("move_back", "raised")) =>
        /\ ~last.result.success
        /\ \A e \in {Raised("Exception", at) : at \in {"open", "insert", "close"}} :
              last.result # Failure(MsgReverted(e))
        /\ Opening(last.result) # Opening(Failure(MsgReverted(NoError)))
        /\ NamesErrorAt(last.result, {"open", "insert", "close"})
        /\ NamesErrorAt(last.result, {"move_back"})

\* a run has ended with the commit and the reverse move both failed
C5_Witness ==
    /\ Returned
    /\ Did("move_back", "raised")
    /\ TargetPath(last.call) \in DOMAIN files

----------------------------------------------------------------------------
(* C6 *)

\* how the last run of process_add_book ended, read off what it did
Outcome ==
    CASE steps = <<"Validating">> -> "validation failure"
      [] steps = <<"Validating", "Placing File">> -> "placement failure"
      [] Did("move_back", "ok") -> "commit failure, rolled back"
      [] Did("move_back", "raised") -> "commit failure, rollback failed"
      [] OTHER -> "done"

\* how the caller reads the same off the returned dictionary alone
OutcomeRead(r) ==
    IF r.success THEN "done"
    ELSE CASE Opening(r) \in {"Error: File path, Author, and Title are required.",
                              "Error: Source file not found at '",
                              "Error: Invalid file type. Allowed: "} ->
                "validation failure"
           [] Opening(r) \in {"Error: Target file already exists: '",
                              "Error preparing paths: ",
                              "Error moving file: ",
                              "Unexpected error during file move: "} ->
                "placement failure"
           [] Opening(r) = "Error adding to database: " ->
                "commit failure, rolled back"
           [] Opening(r) = "CRITICAL Error adding to DB: " ->
                "commit failure, rollback failed"
           [] OTHER -> "unknown"

\* C6: the result of process_add_book alone tells the caller which of the
\* terminal outcomes the run had: validation failure, placement failure,
\* commit failure with successful rollback, commit failure with failed
\* rollback (or success), so results of two different outcomes always differ.
C6_ResultTellsOutcome ==
    Returned => OutcomeRead(last.result) = Outcome

\* a run has ended with the commit failed and the file moved back
C6_Witness ==
    /\ Returned
    /\ Outcome = "commit failure, rolled back"
    /\ last.call.source_path \in DOMAIN files

----------------------------------------------------------------------------
(* C7 *)

\* the input is invalid: source file missing, extension (lower-cased) not
\* allowed, author or title empty
InvalidInput(c) ==
    \/ c.source_path \notin DOMAIN files
    \/ Lower(Suffix(c.source_path)) \notin ALLOWED_EXTENSIONS
    \/ c.author = <<>>
    \/ c.title = <<>>

\* the arguments of the call that starts in this step
Started == IF pc' = "idle" THEN last'.call ELSE call'

\* C7: a call of process_add_book with a missing source file, a disallowed
\* extension (compared case-insensitively) or an empty author or title
\* returns a failure at once and leaves files, directories and store as they
\* were.
C7_InvalidInputChangesNothing ==
    [][(AddBookRuns /\ pc = "idle" /\ clock' = clock /\ InvalidInput(Started)) =>
          /\ pc' = "idle"
          /\ ~last'.result.success
          /\ files' = files
          /\ dirs' = dirs
          /\ db' = db]_vars

\* a call with a disallowed file type has been rejected with the library
\* already holding a book
C7_Witness ==
    /\ Returned
    /\ Opening(last.result) = "Error: Invalid file type. Allowed: "
    /\ last.call.source_path \in DOMAIN files
    /\ Len(db) > 0

----------------------------------------------------------------------------
(* C8 *)

\* C8: when creating the author directory or moving / copying the file
\* raises, the operation fails, the source file is intact at its original
\* path, nothing is left at the target path and no record is inserted.
C8_PlacementErrorLeavesNoPartialState ==
    [][(/\ pc = "Placing File"
        /\ ops'[Len(ops')] \in {Op("mkdir", "raised"), Op("move", "raised"),
                                Op("copy", "raised")}) =>
          /\ pc' = "idle"
          /\ call.source_path \in DOMAIN files'
          /\ files'[call.source_path] = files[call.source_path]
          /\ TargetOf(call) \notin DOMAIN files'
          /\ db' = db]_vars

----------------------------------------------------------------------------
(* C9 *)

IsPrefix(s, t) == Len(s) <= Len(t) /\ SubSeq(t, 1, Len(s)) = s

\* C9: a run of process_add_book enters its states in the order Validating,
\* Placing File, Committing Record, Done, with RollingBack possible only in
\* place of Done; it attempts the move at most once and the insert at most
\* once; and the reverse move is attempted only after the move succeeded and
\* a store call raised.
C9_FixedOrderNoRetry ==
    AddBookRuns =>
        /\ \/ IsPrefix(steps, <<"Validating", "Placing File", "Committing Record", "Done">>)
           \/ steps = <<"Validating", "Placing File", "Committing Record", "RollingBack">>
        /\ TimesAttempted("move") <= 1
        /\ TimesAttempted("insert") <= 1
        /\ TimesAttempted("move_back") <= 1
        /\ (pc = "RollingBack" \/ Attempted("move_back")) =>
              /\ Did("move", "ok")
              /\ \E name \in {"open", "insert", "close"} : Did(name, "raised")
        /\ pc = "Committing Record" => Did("move", "ok")

\* a run has gone through every state up to the reverse move
C9_Witness ==
    /\ Returned
    /\ steps = <<"Validating", "Placing File", "Committing Record", "RollingBack">>
    /\ Did("insert", "raised")
    /\ Attempted("move_back")

----------------------------------------------------------------------------
(* C10 *)

\* C10: in the SaveFileRequest handler a failed exiftool call (tool missing,
\* non-zero exit, any other exception) neither ends the handler nor undoes
\* the placement: the copy stays at the target path as it was copied, the
\* insert is attempted next, and when the insert succeeds the record of the
\* book is in the store with its file in place (until the user deletes the
\* record).
C10_TaggingFailureDoesNotAbort ==
    (SaveRuns /\ Did("exiftool", "raised")) =>
        /\ pc \in {"Committing Record", "idle", "YesOrNo"}
        /\ new_file_path(call) \in DOMAIN files
        /\ files[new_file_path(call)] = files[call.source_path]
        /\ pc # "Committing Record" => Attempted("insert")
        /\ Did("insert", "ok") =>
              /\ steps[Len(steps)] = "Done"
              /\ \/ next_uuid \in removed
                 \/ /\ db # <<>>
                    /\ db[Len(db)].uuid = next_uuid
                    /\ db[Len(db)].filename = new_file_name(call)
                    /\ db[Len(db)].author = call.author

\* a book has been committed although exiftool failed on its file
C10_Witness ==
    /\ SaveRuns
    /\ pc = "idle"
    /\ Did("exiftool", "raised")
    /\ Did("insert", "ok")
    /\ db # <<>>
    /\ new_file_path(call) \in DOMAIN files

----------------------------------------------------------------------------
(* C11 *)

\* C11: exiftool is run only on a placed file whose extension, in lower
\* case, is .pdf, .docx or .epub.  Checked on the SaveFileRequest handler,
\* whose files come from the filtered directory tree; AddScreen tests the
\* extension itself (add.py line 99) but ends before it places a file.
C11_TaggerOnlyOnAllowList ==
    (SaveRuns /\ Attempted("exiftool")) =>
        /\ new_file_path(call) \in DOMAIN files
        /\ Lower(Suffix(new_file_path(call))) \in
              { <<".", "p", "d", "f">>, <<".", "d", "o", "c", "x">>,
                <<".", "e", "p", "u", "b">> }

\* exiftool has stamped a copy whose extension is written in upper case
C11_Witness ==
    /\ SaveRuns
    /\ Did("copy", "ok")
    /\ Did("exiftool", "ok")
    /\ Suffix(new_file_path(call)) = <<".", "P", "D", "F">>
    /\ files[new_file_path(call)] = Tagged(files[call.source_path])

----------------------------------------------------------------------------
(* C12: the caches of BookManager and TagsManager *)

\* what identifies a record and what the lists show of it
Summary(books) ==
    [i \in 1..Len(books) |-> <<books[i].uuid, books[i].title, books[i].author>>]

WithUuid(store, uuid) == SelectSeq(store, LAMBDA book : book.uuid = uuid)

Matching(store, text) ==
    SelectSeq(store, LAMBDA book : \/ text = <<>>
                                   \/ IsInfix(Lower(text), Lower(book.title))
                                   \/ IsInfix(Lower(text), Lower(book.author)))

\* a mutating call of a manager has returned normally
MutationReturns ==
    /\ BookManager \/ TagsManager
    /\ ret'.exc = "none"
    /\ ret'.op \in {"add_book", "update_book", "remove_book",
                    "add_tag", "update_tag", "remove_tag"}

\* C12: every read of a BookManager or a TagsManager returns exactly the
\* records the store holds when it is called (all of them, those with the
\* uuid, those matching the text, the tags, the tag with the name), and
\* every mutating call that returns normally leaves the cache marked dirty.
C12_ReadsReturnTheStore ==
    [][ /\ get_all_books =>
              Summary(ReadValue("get_all_books", <<>>, cache'.items)) = Summary(db)
        /\ \A uuid \in BookUuids :
              get_book(uuid) =>
                 Summary(ReadValue("get_book", <<uuid>>, cache'.items))
                    = Summary(WithUuid(db, uuid))
        /\ \A text \in SearchTexts :
              search_books_by_text(text) =>
                 Summary(ReadValue("search_books_by_text", <<text>>, cache'.items))
                    = Summary(Matching(db, text))
        /\ get_all_tags => DictValues(TagsValue("get_all_tags", <<>>, cache'.items)) = db
        /\ \A name \in TagNames :
              get_tag_by_name(name) =>
                 LET found == TagsValue("get_tag_by_name", <<name>>, cache'.items)
                     named == SelectSeq(db, LAMBDA tag : tag.name = name)
                 IN  IF named = <<>> THEN found = <<>> ELSE found = <<named[1]>>
        /\ MutationReturns => dirty'
      ]_vars

----------------------------------------------------------------------------
(* C13: the book list of BookManagerApp *)

UuidsOf(books) == {books[i].uuid : i \in 1..Len(books)}

\* _update_table([]) has run: after an insert, from the Refresh button, or
\* from the callback the Delete button queues
TableUpdated ==
    \/ SaveCommittingRecord /\ ops'[Len(ops')] = Op("insert", "ok")
    \/ handle_refresh
    \/ call_after_refresh

\* C13: whenever BookManagerApp updates its table without a read error the
\* list it shows holds the books of the store: an added book is in it, a
\* book removed through the dialog is not.
C13_TableUpdateShowsTheStore ==
    [][ (TableUpdated /\ notify' # ErrorReadingDatabase) =>
            UuidsOf(cache_books') = UuidsOf(db') ]_vars

----------------------------------------------------------------------------
(* C14, C15: record ids *)

\* the id of the i-th record of the store: its uuid; a record of
\* process_add_book has none and is known by the doc_id tinydb gives it,
\* which is its position as long as nothing is removed
RecordId(i) == IF AddBookRuns THEN i ELSE db[i].uuid

\* C14: every record of the store of books carries an id, no two records
\* share one, and no record has the id of a record that was removed.
C14_IdsUniqueNeverReused ==
    app \in {"AddBookScreen", "MainScreen", "BookManagerApp"} =>
        /\ \A i \in 1..Len(db) : AddBookRuns \/ "uuid" \in DOMAIN db[i]
        /\ \A i, j \in 1..Len(db) : RecordId(i) = RecordId(j) => i = j
        /\ \A i \in 1..Len(db) : RecordId(i) \notin removed

\* C15: update_book called with new_data that holds another uuid than the
\* record's raises and leaves the uuids of the store as they are.
C15_UpdateRejectsIdChange ==
    [][ \A uuid \in BookUuids, new_data \in NewData :
           ( /\ update_book(uuid, new_data)
             /\ "uuid" \in DOMAIN new_data
             /\ new_data.uuid # uuid ) =>
                /\ ret'.exc # "none"
                /\ Summary(db') = Summary(db) ]_vars

----------------------------------------------------------------------------
(* C16, C17: removing a record *)

\* C16: removing an id the store does not hold reports an error to the
\* caller (remove_book raises, the dialog notifies an error) and leaves the
\* store as it is; removing an id the store holds removes the one record
\* with that id and no other.
C16_RemoveReportsNotFound ==
    [][ /\ \A uuid \in BookUuids :
              remove_book(uuid) =>
                 IF Contains(db, uuid)
                   THEN /\ Len(db') = Len(db) - 1
                        /\ \A i \in 1..Len(db) :
                              db[i].uuid # uuid => \E j \in 1..Len(db') : db'[j] = db[i]
                   ELSE ret'.exc # "none" /\ db' = db
        /\ (YesOrNo("yes") /\ pc' = "idle") =>
              IF Contains(db, current_uuid)
                THEN /\ Len(db') = Len(db) - 1
                     /\ ~Contains(db', current_uuid)
                ELSE notify'.severity = "error" /\ db' = db
      ]_vars

\* C17: a step that removes a record from the store leaves every file with
\* its path and content, and every directory, as they were.
C17_DeleteLeavesFiles ==
    [][ Len(db') < Len(db) => files' = files /\ dirs' = dirs ]_vars

\* the record of an added book has been deleted through the dialog and the
\* copy placed for it is still in the library
C17_Witness ==
    /\ SaveRuns
    /\ pc = "idle"
    /\ Did("insert", "ok")
    /\ next_uuid \in removed
    /\ db = <<>>
    /\ new_file_path(call) \in DOMAIN files
    /\ files[new_file_path(call)] \in {files[call.source_path], Tagged(files[call.source_path])}

----------------------------------------------------------------------------
(* C18 *)

\* C18: the tag list of every record an add-book workflow has committed
\* holds only trimmed, non-empty strings, and no string twice (compared
\* case-sensitively).
C18_StoredTagsAreASet ==
    (AddBookRuns \/ SaveRuns) =>
        \A i \in 1..Len(db) :
            LET tags == db[i].tags
            IN  /\ \A k \in 1..Len(tags) :
                       /\ tags[k] # <<>>
                       /\ tags[k][1] # " "
                       /\ tags[k][Len(tags[k])] # " "
                /\ \A k, l \in 1..Len(tags) : tags[k] = tags[l] => k = l

----------------------------------------------------------------------------
(* C19, C20: the Name Normalizer *)

NormalizeRuns == app = "normalize_author_for_path"

\* C19: normalizing a normalized name gives the same name again:
\* normalize(normalize(x)) = normalize(x) for every author name x.
C19_NormalizeIdempotent ==
    (NormalizeRuns /\ Len(out) = 2) => out[2] = out[1]

\* t is x without its leading and trailing spaces
IsTrimOf(t, x) ==
    \E i \in 0..Len(x), j \in 0..Len(x) :
        /\ i + j <= Len(x)
        /\ t = SubSeq(x, i + 1, Len(x) - j)
        /\ \A k \in 1..i : x[k] = " "
        /\ \A k \in (Len(x) - j + 1)..Len(x) : x[k] = " "
        /\ t # <<>> => t[1] # " " /\ t[Len(t)] # " "
        /\ t = <<>> => j = 0

\* t is the reserved marker "AA.VV." written in any case
IsMarker(t) ==
    /\ Len(t) = 6
    /\ \A k \in {1, 2} : t[k] \in {"A", "a"}
    /\ \A k \in {4, 5} : t[k] \in {"V", "v"}
    /\ t[3] = "." /\ t[6] = "."

\* the characters of t that are not dots, in their order
RECURSIVE Undotted(_)
Undotted(t) ==
    IF t = <<>> THEN <<>>
    ELSE IF t[Len(t)] = "." THEN Undotted(SubSeq(t, 1, Len(t) - 1))
    ELSE Append(Undotted(SubSeq(t, 1, Len(t) - 1)), t[Len(t)])

\* C20: normalize_author_for_path gives "" for the empty name, "AAVV" when
\* the trimmed name is the marker "AA.VV." in any case, and otherwise the
\* trimmed name without its dots, every other character kept as it is; the
\* result never contains a dot ("J.R.R. Tolkien" gives "JRR Tolkien").
C20_NormalizeContract ==
    (NormalizeRuns /\ Len(out) >= 1) =>
        \E t \in {SubSeq(arg, i, j) : i \in 1..(Len(arg) + 1), j \in 0..Len(arg)} :
            /\ IsTrimOf(t, arg)
            /\ arg = <<>> => out[1] = <<>>
            /\ IsMarker(t) => out[1] = <<"A", "A", "V", "V">>
            /\ ~IsMarker(t) => out[1] = Undotted(t)
            /\ \A k \in 1..Len(out[1]) : out[1][k] # "."

\* the example of the specification, and a marker written in mixed case
\* between spaces
C20_Witness ==
    /\ NormalizeRuns
    /\ Len(out) >= 1
    /\ \/ /\ arg = <<"J", ".", "R", ".", "R", ".", " ", "T", "o", "l", "k", "i", "e", "n">>
          /\ out[1] = <<"J", "R", "R", " ", "T", "o", "l", "k", "i", "e", "n">>
       \/ /\ arg = <<" ", "a", "a", ".", "V", "v", ".", " ">>
          /\ out[1] = <<"A", "A", "V", "V">>

----------------------------------------------------------------------------
(* C21: the name and the place of the file of an added book *)

\* the step ends an add as a success: process_add_book returns its success
\* result, the SaveFileRequest handler inserts its record
AddSucceeds ==
    \/ AddBookRuns /\ CommittingRecord /\ pc' = "idle" /\ last'.result.success
    \/ SaveRuns /\ SaveCommittingRecord /\ Len(db') > Len(db)

\* C21: when an add succeeds the placed file is named
\* "<title> - <author><extension of the source>" with the author as typed, it
\* lies in the directory <library_root>/<normalize(author)>, and the filename
\* of the committed record is exactly the name of the placed file.
C21_PlacedFileNamedAndFiled ==
    [][ AddSucceeds =>
           LET placed == TargetOf(call)
           IN  /\ placed \in DOMAIN files'
               /\ Name(placed) = call.title \o <<" ", "-", " ">> \o call.author
                                    \o Suffix(call.source_path)
               /\ Parent(placed) =
                     PathJoin(LibraryRoot, normalize_author_for_path(call.author))
               /\ db'[Len(db')].filename = Name(placed) ]_vars

----------------------------------------------------------------------------
(* C23 *)

\* C23: whatever fails in process_add_book (path preparation, mkdir, move,
\* store open, insert, close, reverse move), the call returns to its caller
\* a dictionary with the keys success, message and new_file_path, and
\* new_file_path is a path exactly when success is true.
C23_AlwaysAStructuredResult ==
    /\ AddBookRuns => pc \in {"idle", "Placing File", "Committing Record", "RollingBack"}
    /\ Returned =>
          /\ DOMAIN last.result = {"success", "message", "new_file_path"}
          /\ last.result.success \in BOOLEAN
          /\ DOMAIN last.result.message = {"text", "args"}
          /\ (last.result.new_file_path # <<>>) <=> last.result.success
          /\ last.result.success => last.result.new_file_path = TargetPath(last.call)

\* the collision check itself has raised and the caller got a failure result
C23_Witness ==
    /\ Returned
    /\ Did("exists", "raised")
    /\ ~last.result.success
    /\ last.result.new_file_path = <<>>
    /\ Opening(last.result) = "Error preparing paths: "

----------------------------------------------------------------------------
(* C24 *)

\* C24: an add whose composed filename "<title> - <author><ext>" breaks the
\* platform's filename rules ends at once with an error, before a directory
\* is made, a file moved or copied, or a record inserted.
C24_FilenameValidatedFirst ==
    [][ /\ (/\ AddBookRuns /\ pc = "idle" /\ process_add_book
            /\ ~ValidFilename(NewFilename(Started))) =>
               /\ pc' = "idle"
               /\ ~last'.result.success
               /\ files' = files /\ dirs' = dirs /\ db' = db
        /\ (/\ SaveRuns /\ pc = "idle" /\ handle_open_file_request
            /\ ~ValidFilename(new_file_name(call'))) =>
               /\ pc' = "idle"
               /\ notify'.severity = "error"
               /\ files' = files /\ dirs' = dirs /\ db' = db ]_vars

----------------------------------------------------------------------------
(* C26 *)

\* the file of the book of call c, whole, is at path p
BookFileAt(p, c) ==
    p \in DOMAIN files /\ files[p] = ContentOf(Name(c.source_path))

\* C26: when a call of process_add_book that found its source file returns,
\* the file of the book is at the source path or at the target path and not
\* at both; it is at the target only after a success or after a commit
\* failure whose reverse move failed, and at the source otherwise.
C26_FileAtExactlyOnePlace ==
    (/\ Returned
     /\ Opening(last.result) \notin {"Error: File path, Author, and Title are required.",
                                    "Error: Source file not found at '"}) =>
        LET at_source == BookFileAt(last.call.source_path, last.call)
            at_target == BookFileAt(TargetPath(last.call), last.call)
        IN  /\ at_source \/ at_target
            /\ ~(at_source /\ at_target)
            /\ at_target => last.result.success \/ Did("move_back", "raised")
            /\ (~last.result.success /\ ~Did("move_back", "raised")) => at_source

----------------------------------------------------------------------------
(* C27 *)

\* p is a path below a subdirectory of the library root
InsideAuthorDir(p) ==
    /\ Len(p) >= Len(LibraryRoot) + 2
    /\ SubSeq(p, 1, Len(LibraryRoot)) = LibraryRoot
    /\ \A i \in 1..Len(p) : p[i] # <<".", ".">>

\* C27: every file an add-book workflow places (every path that gets a file
\* in a step of a workflow, the source path a reverse move restores aside)
\* lies below a per-author subdirectory of the library root: never outside
\* the library root and never directly in it.
C27_PlacedInsideAuthorDir ==
    [][ (AddBookRuns \/ SaveRuns) =>
           \A p \in DOMAIN files' \ DOMAIN files :
               p = call.source_path \/ InsideAuthorDir(p) ]_vars

----------------------------------------------------------------------------
(* The "added" timestamp *)

\* the "added" value of a stored document has no part below the second;
\* BookManagerApp writes "%Y-%m-%d %H:%M", the other writers an ISO string
NoSubSecond(added) == IF SaveRuns THEN Len(added) = 1 ELSE added.fraction = <<>>

\* C25: the "added" timestamp of every record written to the store by an
\* add workflow or by Book.to_dict has no sub-second component
C25_AddedHasNoSubSecond ==
    app \in {"AddBookScreen", "MainScreen", "BookManagerApp"}
        => \A i \in 1..Len(db) : NoSubSecond(db[i].added)

BookRuns == app = "Book.from_dict"

\* two datetimes are the same moment
SameInstant(a, b) ==
    LET utc(d) == (d.minute - (IF d.tz = Naive THEN 0
                               ELSE IF d.tz[1] = "+" THEN 60 * d.tz[2]
                               ELSE 0 - 60 * d.tz[2])) * 120
                  + d.second * 2 + d.microsecond \div 500000
    IN  (a.tz = Naive) = (b.tz = Naive) /\ utc(a) = utc(b)

\* C29: a Book built again from the same stored document has the same
\* "added" instant as the one built before, whatever the form of the stored
\* string, and Book.from_dict(b.to_dict()) equals b in every field, for the
\* Books the cache holds and for the Book AddScreen hands to add_book
C29_AddedStableAndRoundTrip ==
    [][ /\ (BookRuns /\ Len(out) = 1 /\ Len(out') = 2)
            => SameInstant(out'[2].added, out'[1].added)
        /\ (BookRuns /\ Len(out') > Len(out))
            => from_dict(to_dict(out'[Len(out')]), Instant(clock)) = out'[Len(out')]
        /\ \A uuid \in BookUuids, author \in Authors, title \in BookTitles :
              (add_book(Book(uuid, author, title, Instant(clock))) /\ ret'.exc = "none")
                  => from_dict(db'[Len(db')], Instant(clock))
                       = Book(uuid, author, title, Instant(clock)) ]_vars

----------------------------------------------------------------------------
(* Sorting *)

\* the documents of the store a list of Books was read from, by position:
\* the places in db of the records whose fields the Book has
PlacesOf(book) ==
    { i \in 1..Len(db) : from_dict(db[i], Instant(clock)) = book }

\* C22: sort_books("added", reverse=False) is stable for every store
\* content: two records with equal "added" timestamps appear in the result
\* in their store-insertion order
C22_SortByAddedIsStable ==
    [][ \A current_col \in Columns :
          (/\ action_reverse_sort(current_col)
           /\ sort_field' = "added" /\ ~sort_reverse')
              => \A i, j \in 1..Len(rows') :
                    (i < j /\ Timestamp(rows'[i].added) = Timestamp(rows'[j].added))
                        => \E p \in PlacesOf(rows'[i]), q \in PlacesOf(rows'[j]) : p <= q ]_vars

\* C30: after MainScreen.update_table ran, on mount or after a header
\* click, the rows handed to the table are in the order of
\* sort_books(sort_field, sort_reverse); and sort_books leaves the cache,
\* and so the order get_all_books returns, as it was
C30_TableShowsSortedRows ==
    [][ /\ (on_mount \/ \E column_index \in Columns :
                            on_data_table_header_selected(column_index))
            => rows' = sort_books_result(cache'.items, sort_field', sort_reverse')
        /\ \A current_col \in Columns :
              (action_reverse_sort(current_col) /\ cache.loaded /\ ~dirty)
                  => cache' = cache ]_vars

----------------------------------------------------------------------------
(* Records and their files *)

\* C28: between two operations of the add-book workflow and of BookManager
\* (add_book, update_book, remove_book), every record of the store that has
\* a filename resolves, as <library_root>/<normalize(author)>/<filename>, to
\* a file that exists
C28_RecordsResolveToFiles ==
    (app \in {"AddBookScreen", "MainScreen"} /\ pc = "idle")
        => \A i \in 1..Len(db) :
              db[i].filename # <<>> => ResolvedPath(db[i]) \in DOMAIN files

====
